---- MODULE Spec2Model ----
(***************************************************************************)
(* AuthTiles (src/App.tsx): a React Native authenticator.  The App         *)
(* component keeps a list of accounts, adds one per scanned otpauth URI    *)
(* (handleQRScan), shows one tile per account with the current TOTP code   *)
(* (generateTOTP, recomputed on every render), and lets the user move,     *)
(* resize and delete tiles.                                                *)
(*                                                                         *)
(* Strings are sequences of one-character strings, so that startsWith,     *)
(* split, decodeURIComponent and the query parser are computed, character  *)
(* by character, as the JavaScript engine computes them.                   *)
(***************************************************************************)
EXTENDS Integers, Sequences, FiniteSets, TLC

(***************************************************************************)
(* Characters.  Printable is the ASCII table from code 32 to code 126;     *)
(* the scanned strings of the model are drawn from it.  Code 96 (the grave *)
(* accent) is written "grave".                                             *)
(***************************************************************************)
Printable ==
  << " ", "!", "\"", "#", "$", "%", "&", "'", "(", ")", "*", "+", ",", "-", ".", "/",
     "0", "1", "2", "3", "4", "5", "6", "7", "8", "9", ":", ";", "<", "=", ">", "?",
     "@", "A", "B", "C", "D", "E", "F", "G", "H", "I", "J", "K", "L", "M", "N", "O",
     "P", "Q", "R", "S", "T", "U", "V", "W", "X", "Y", "Z", "[", "\\", "]", "^", "_",
     "grave", "a", "b", "c", "d", "e", "f", "g", "h", "i", "j", "k", "l", "m", "n", "o",
     "p", "q", "r", "s", "t", "u", "v", "w", "x", "y", "z", "{", "|", "}", "~" >>

\* The code of every character of the table.
CharCodes ==
  [c \in { Printable[i] : i \in 1..Len(Printable) } |->
     31 + (CHOOSE i \in 1..Len(Printable) : Printable[i] = c)]

\* String.prototype.charCodeAt(0) of a one-character string.
charCodeAt(c) == CharCodes[c]

\* String.fromCharCode for a printable code.
fromCharCode(n) == Printable[n - 31]

\* Number.prototype.toString of a digit 0..9.
DigitChar(d) == fromCharCode(48 + d)

(***************************************************************************)
(* String primitives of the JavaScript runtime used by src/App.tsx.        *)
(***************************************************************************)
\* String.prototype.toUpperCase of one ASCII character.
Upper(c) == LET n == charCodeAt(c) IN IF n \in 97..122 THEN fromCharCode(n - 32) ELSE c

\* A prefix test that ignores case, as a URL parser reads a scheme.
startsWithIgnoringCase(s, p) ==
  Len(s) >= Len(p) /\ \A i \in 1..Len(p) : Upper(s[i]) = Upper(p[i])

\* String.prototype.startsWith: an exact, case-sensitive prefix test.
startsWith(s, p) == Len(s) >= Len(p) /\ SubSeq(s, 1, Len(p)) = p

\* String.prototype.includes for a one-character needle.
includes(s, c) == \E i \in 1..Len(s) : s[i] = c

\* String.prototype.indexOf, 1-based; 0 when the character does not occur.
indexOf(s, c) ==
  IF includes(s, c) THEN CHOOSE i \in 1..Len(s) : s[i] = c /\ \A j \in 1..(i - 1) : s[j] # c
  ELSE 0

\* String.prototype.split(c) without a limit: every piece between separators.
RECURSIVE splitAll(_, _)
splitAll(s, c) ==
  LET i == indexOf(s, c)
  IN  IF i = 0 THEN << s >>
      ELSE << SubSeq(s, 1, i - 1) >> \o splitAll(SubSeq(s, i + 1, Len(s)), c)

\* String.prototype.split(c, limit): split on EVERY separator, then keep at
\* most `limit` pieces; the pieces beyond the limit are dropped, not joined.
split(s, c, limit) ==
  LET all == splitAll(s, c)
  IN  IF Len(all) <= limit THEN all ELSE SubSeq(all, 1, limit)

\* String.prototype.slice(1).
slice1(s) == SubSeq(s, 2, Len(s))

IsHex(c) == c \in { "0", "1", "2", "3", "4", "5", "6", "7", "8", "9",
                    "a", "b", "c", "d", "e", "f", "A", "B", "C", "D", "E", "F" }

HexVal(c) ==
  LET n == charCodeAt(c)
  IN  IF n <= 57 THEN n - 48 ELSE IF n <= 70 THEN n - 55 ELSE n - 87

\* A well-formed escape %XX at position i of s.
IsEscape(s, i) == s[i] = "%" /\ i + 2 <= Len(s) /\ IsHex(s[i + 1]) /\ IsHex(s[i + 2])

EscapeCode(s, i) == 16 * HexVal(s[i + 1]) + HexVal(s[i + 2])

\* decodeURIComponent: every % must start an escape %XX, else URIError.  The
\* result is [ok, val]; ok = FALSE stands for the thrown URIError.  Escapes of
\* bytes outside the printable ASCII range also end in ok = FALSE here; the
\* scanned strings of the model carry no such escape.
RECURSIVE decodeURIComponent(_)
decodeURIComponent(s) ==
  IF s = << >> THEN [ok |-> TRUE, val |-> << >>]
  ELSE IF s[1] # "%"
       THEN LET r == decodeURIComponent(SubSeq(s, 2, Len(s)))
            IN  [ok |-> r.ok, val |-> << s[1] >> \o r.val]
  ELSE IF IsEscape(s, 1) /\ EscapeCode(s, 1) \in 32..126
       THEN LET r == decodeURIComponent(SubSeq(s, 4, Len(s)))
            IN  [ok |-> r.ok, val |-> << fromCharCode(EscapeCode(s, 1)) >> \o r.val]
  ELSE [ok |-> FALSE, val |-> << >>]

\* The decoding URLSearchParams applies to a name or a value: + is a space,
\* a well-formed escape is its character, any other % stays as it is.
RECURSIVE formDecode(_)
formDecode(s) ==
  IF s = << >> THEN << >>
  ELSE IF s[1] = "+" THEN << " " >> \o formDecode(SubSeq(s, 2, Len(s)))
  ELSE IF IsEscape(s, 1) /\ EscapeCode(s, 1) \in 32..126
       THEN << fromCharCode(EscapeCode(s, 1)) >> \o formDecode(SubSeq(s, 4, Len(s)))
  ELSE << s[1] >> \o formDecode(SubSeq(s, 2, Len(s)))

(***************************************************************************)
(* new URL(qrData), for a string that starts with otpauth://totp/.  The    *)
(* scheme is not a special one, the host is totp, and the constructor does *)
(* not throw: pathname is the text from the / that ends the prefix up to   *)
(* the first ? or #, and the query is the text after the first ? up to the *)
(* first #.  The scanned strings of the model hold no dot segment and no   *)
(* character the URL parser would escape or strip.                         *)
(***************************************************************************)
Prefix == << "o", "t", "p", "a", "u", "t", "h", ":", "/", "/", "t", "o", "t", "p", "/" >>

\* Index of the first character of s, from position `from` on, that is in
\* `stops`; Len(s) + 1 when there is none.
RECURSIVE firstOf(_, _, _)
firstOf(s, from, stops) ==
  IF from > Len(s) THEN Len(s) + 1
  ELSE IF s[from] \in stops THEN from
  ELSE firstOf(s, from + 1, stops)

\* url.pathname
pathname(qrData) ==
  SubSeq(qrData, Len(Prefix), firstOf(qrData, Len(Prefix), { "?", "#" }) - 1)

\* url.search without its leading ?
query(qrData) ==
  LET q == firstOf(qrData, Len(Prefix), { "?", "#" })
  IN  IF q > Len(qrData) \/ qrData[q] = "#" THEN << >>
      ELSE SubSeq(qrData, q + 1, firstOf(qrData, q + 1, { "#" }) - 1)

\* JavaScript's null, and a string value, as url.searchParams.get returns them.
Null == [isNull |-> TRUE, val |-> << >>]
Str(s) == [isNull |-> FALSE, val |-> s]

\* A test for null alone, which lets the empty string through.
IsNullOnly(v) == v.isNull

\* !v for a value that is null or a string: null and "" are falsy.
Falsy(v) == v.isNull \/ v.val = << >>

\* One name=value piece of the query, decoded.
pair(piece) ==
  LET eq == indexOf(piece, "=")
  IN  IF eq = 0 THEN [name |-> formDecode(piece), val |-> << >>]
      ELSE [name |-> formDecode(SubSeq(piece, 1, eq - 1)),
            val |-> formDecode(SubSeq(piece, eq + 1, Len(piece)))]

\* url.searchParams.get(name): the value of the first pair with that name.
searchParamsGet(qrData, name) ==
  LET pieces == SelectSeq(splitAll(query(qrData), "&"), LAMBDA x : x # << >>)
      hits == SelectSeq(pieces, LAMBDA x : pair(x).name = name)
  IN  IF hits = << >> THEN Null ELSE Str(pair(hits[1]).val)

(***************************************************************************)
(* Base32 (RFC 4648): the alphabet A-Z 2-7, either case, optional = padding *)
(* at the end.  n characters carry 5n bits, so floor(5n / 8) bytes.         *)
(***************************************************************************)
IsBase32Char(c) ==
  LET n == charCodeAt(Upper(c)) IN n \in 65..90 \/ n \in 50..55

Base32Val(c) ==
  LET n == charCodeAt(Upper(c)) IN IF n >= 65 THEN n - 65 ELSE n - 24

RECURSIVE StripPadding(_)
StripPadding(s) ==
  IF s # << >> /\ s[Len(s)] = "=" THEN StripPadding(SubSeq(s, 1, Len(s) - 1)) ELSE s

IsValidBase32(s) ==
  LET d == StripPadding(s)
  IN  /\ \A i \in 1..Len(d) : IsBase32Char(d[i])
      /\ (5 * Len(d)) \div 8 >= 1

(***************************************************************************)
(* generateTOTP.  jsotp is a library outside the repository: the model     *)
(* keeps what App.tsx relies on.  jsotp.TOTP(secret).now() decodes the     *)
(* Base32 secret, throws when it cannot, and otherwise returns the         *)
(* 6-digit HOTP value of the counter floor(Date.now() / 1000 / 30).  The   *)
(* HMAC-SHA1 and the truncation are stood for by HOTP below, a fixed       *)
(* function of the key characters and the counter with 6-digit values.     *)
(***************************************************************************)
PeriodMs == 30000
CodeModulus == 1000000

\* padStart(6, '0') of the decimal form of n, 0 <= n < 10^6.
RECURSIVE padStart(_, _)
padStart(n, width) ==
  IF width = 0 THEN << >>
  ELSE padStart(n \div 10, width - 1) \o << DigitChar(n % 10) >>

RECURSIVE KeySum(_, _)
KeySum(d, i) ==
  IF i > Len(d) THEN 0 ELSE (i * (Base32Val(d[i]) + 1) + KeySum(d, i + 1)) % 9973

HOTP(secret, counter) ==
  (KeySum(StripPadding(secret), 1) * 7919 + (counter % 9973) * 104729 + 271828) % CodeModulus

jsotpThrows(secret) == ~IsValidBase32(secret)

jsotpNow(secret, ms) == padStart(HOTP(secret, (ms \div 1000) \div 30), 6)

\* A 32-bit integer as two 16-bit halves <<hi, lo>> (two's complement).
Half == 65536

ToInt32(n) == << (n \div Half) % Half, n % Half >>

\* One round of the reduce: a = ((a << 5) - a) + b.charCodeAt(0); a & a.
\* (a << 5) - a + c is 31 a + c, and a & a wraps it to 32 bits.
hashRound(a, c) ==
  LET lo == 31 * a[2] + charCodeAt(c)
      hi == 31 * a[1] + lo \div Half
  IN  << hi % Half, lo % Half >>

RECURSIVE reduce(_, _)
reduce(secret, a) ==
  IF secret = << >> THEN a
  ELSE reduce(SubSeq(secret, 2, Len(secret)), hashRound(a, secret[1]))

\* Math.abs(hash % 1000000) of the signed 32-bit value of <<hi, lo>>.
absMod(a) ==
  LET m == ((a[1] % 32768) * Half + a[2]) % CodeModulus
      \* the value is u - 2^31 when the sign bit is set; 2^31 % 10^6 = 483648
      neg == (m - 483648) % CodeModulus
  IN  IF a[1] < 32768 THEN m ELSE (CodeModulus - neg) % CodeModulus

\* The catch branch with the step taken per second instead of per 30 seconds.
fallbackCodePerSecond(secret, ms) ==
  LET timeStep == ms \div 1000
  IN  padStart(absMod(reduce(secret, ToInt32(timeStep))), 6)

\* The catch branch of generateTOTP.
fallbackCode(secret, ms) ==
  LET timeStep == ms \div PeriodMs
  IN  padStart(absMod(reduce(secret, ToInt32(timeStep))), 6)

\* Lines 35-49; ms is the reading of Date.now() the call makes.
generateTOTP(secret, ms) ==
  IF jsotpThrows(secret) THEN fallbackCode(secret, ms) ELSE jsotpNow(secret, ms)

(***************************************************************************)
(* The pure part of handleQRScan: what one scan event does, as a record    *)
(* [kind, alert, issuer, accountName, secret].  kind is "ignored" (the     *)
(* early return on a falsy string), "rejected" (an Alert and nothing       *)
(* else) or "added".                                                       *)
(***************************************************************************)
NoAlert == "none"
AlertMissingSecret == "QR code missing secret key"
AlertInvalidFormat == "Invalid QR code format"
AlertInvalidQR == "Please scan a valid authenticator QR code"

K_issuer == << "i", "s", "s", "u", "e", "r" >>
K_secret == << "s", "e", "c", "r", "e", "t" >>
K_digits == << "d", "i", "g", "i", "t", "s" >>
DefaultIssuer == << "A", "c", "c", "o", "u", "n", "t" >>
DefaultAccountName == << "U", "n", "k", "n", "o", "w", "n" >>

Outcome(kind, message, issuer, accountName, secret) ==
  [kind |-> kind, alert |-> message, issuer |-> issuer,
   accountName |-> accountName, secret |-> secret]

Rejected(message) == Outcome("rejected", message, << >>, << >>, << >>)

\* Lines 255-262: the issuer and the account name the label gives.
labelParts(label, issuerParam) ==
  IF includes(label, ":")
  THEN LET parts == split(label, ":", 2)
       IN  [issuer |-> IF issuerParam = << >> THEN parts[1] ELSE issuerParam,
            accountName |-> parts[2]]
  ELSE [issuer |-> IF issuerParam = << >> THEN label ELSE issuerParam,
        accountName |-> label]

scanOutcome(qrData) ==
  IF qrData = << >> THEN Outcome("ignored", NoAlert, << >>, << >>, << >>)
  ELSE IF ~startsWith(qrData, Prefix) THEN Rejected(AlertInvalidQR)
  ELSE LET decoded == decodeURIComponent(pathname(qrData))
       IN  IF ~decoded.ok THEN Rejected(AlertInvalidFormat)
           ELSE LET label == slice1(decoded.val)
                    got == searchParamsGet(qrData, K_issuer)
                    issuerParam == IF Falsy(got) THEN << >> ELSE got.val
                    parts == labelParts(label, issuerParam)
                    issuer == IF parts.issuer = << >> THEN DefaultIssuer ELSE parts.issuer
                    accountName == IF parts.accountName = << >> THEN DefaultAccountName
                                   ELSE parts.accountName
                    secret == searchParamsGet(qrData, K_secret)
                IN  IF Falsy(secret) THEN Rejected(AlertMissingSecret)
                    ELSE Outcome("added", NoAlert, issuer, accountName, secret.val)

(***************************************************************************)
(* Bounds of the model and the values its events are drawn from.           *)
(***************************************************************************)
\* Accounts the list holds at most, in the application and in the scanner runs.
MaxAccounts == 2
MaxScanAccounts == 1
\* Times the clock advances (by one tick) in one run.
MaxAdvances == 1

TickMs == 1000
InitialWidth == 180
InitialHeight == 100
ScreenWidth == 390
ScreenHeight == 844

\* Date.now() when the App mounts: half a tick before a 30-second boundary.
StartNow == PeriodMs - TickMs \div 2
MaxNow == StartNow + MaxAdvances * TickMs

\* Math.random() * 150 + 50 and Math.random() * 400 + 150, one value each.
RandX == { 50 }
RandY == { 150 }
\* gesture.dx, gesture.dy of a drag: straight up, as far as the clamp.
Gestures == { << 0, -900 >> }
\* Ratio of the finger spreads of a pinch, as numerator and denominator.
PinchScales == { << 1, 2 >> }

\* The text of the scanned codes.
L_a == << "a" >>
L_ab == << "a", ":", "b" >>
L_abc == << "a", ":", "b", ":", "c" >>
L_b == << ":", "b" >>
L_a_ == << "a", ":" >>
L_esc == << "a", "%", "3", "A", "b" >>
L_bad == << "%", "z", "z" >>
Labels == { << >>, L_a, L_ab, L_abc, L_b, L_a_, L_esc, L_bad }

S_valid == << "J", "B", "S", "W", "Y", "3", "D", "P" >>
S_lower == << "m", "z" >>
S_invalid == << "a", "1", "!" >>
Absent == << "absent" >>
SecretParams == { Absent, << >>, S_valid, S_lower, S_invalid }
IssuerParams == { Absent, << >>, << "I" >> }
DigitParams == { Absent, << "6" >>, << "8" >>, << "1", "0" >> }

param(name, v) == IF v = Absent THEN << >> ELSE << name \o << "=" >> \o v >>

RECURSIVE join(_)
join(ps) ==
  IF ps = << >> THEN << >>
  ELSE IF Len(ps) = 1 THEN ps[1]
  ELSE ps[1] \o << "&" >> \o join(Tail(ps))

Uri(prefix, label, secret, issuer, digits) ==
  LET ps == param(K_secret, secret) \o param(K_issuer, issuer) \o param(K_digits, digits)
  IN  prefix \o label \o (IF ps = << >> THEN << >> ELSE << "?" >> \o join(ps))

HotpPrefix == << "o", "t", "p", "a", "u", "t", "h", ":", "/", "/", "h", "o", "t", "p", "/" >>
UpperPrefix == << "O", "T", "P", "A", "U", "T", "H", ":", "/", "/", "T", "O", "T", "P", "/" >>
NoSlashPrefix == << "o", "t", "p", "a", "u", "t", "h", ":", "/", "/", "t", "o", "t", "p" >>

OtherInputs ==
  { << >>,
    Uri(HotpPrefix, L_ab, S_valid, Absent, Absent),
    Uri(UpperPrefix, L_ab, S_valid, Absent, Absent),
    Uri(NoSlashPrefix, << >>, S_valid, Absent, Absent),
    << "h", "e", "l", "l", "o" >> }

TotpInputs ==
  { Uri(Prefix, l, s, i, d) : l \in Labels, s \in SecretParams,
                              i \in IssuerParams, d \in DigitParams }

\* Every scanned string of the scanner runs, and the few of the application runs.
ScanInputs == OtherInputs \cup TotpInputs

AppInputs ==
  { << >>,
    Uri(Prefix, L_ab, S_valid, Absent, Absent),
    Uri(Prefix, L_abc, S_invalid, Absent, << "1", "0" >>),
    Uri(Prefix, L_ab, Absent, << "I" >>, Absent) }

(***************************************************************************)
(* The state of the App component, the clock, and what the last render     *)
(* put on the screen.                                                      *)
(***************************************************************************)
VARIABLES
  accounts,               \* useState<Account[]>: the account list
  showCamera,             \* useState(false)
  currentTime,            \* useState(Date.now()), set by the interval
  showDeleteZone,         \* useState(false)
  currentlyDraggingTile,  \* useState<string | null>(null)
  isDragging,             \* ids of the mounted tiles whose isDragging is true
  now,                    \* Date.now(), in milliseconds
  codes,                  \* totpCode of each tile as last rendered; << >> in camera view
  alert                   \* the error Alert the step just taken raised, NoAlert if none

vars == << accounts, showCamera, currentTime, showDeleteZone, currentlyDraggingTile,
           isDragging, now, codes, alert >>

NoTile == "null"

\* scanOutcome of every scanned string of the model, and generateTOTP of
\* every secret a scan can store at every clock reading of the model, each
\* computed once.
Outcomes == [qrData \in ScanInputs \cup AppInputs |-> scanOutcome(qrData)]
ClockValues == { StartNow + k * TickMs : k \in 0..MaxAdvances }
StoredSecrets == { Outcomes[qrData].secret : qrData \in ScanInputs \cup AppInputs }
TotpCodes == [s \in StoredSecrets |-> [t \in ClockValues |-> generateTOTP(s, t)]]

\* The render of App: the camera view shows no tile (line 369); otherwise
\* each tile gets generateTOTP(account.secret), which reads the clock itself.
Render(accs, camera, t) ==
  IF camera THEN << >>
  ELSE [i \in 1..Len(accs) |-> TotpCodes[accs[i].secret][t]]

Init ==
  /\ accounts = << >>
  /\ showCamera = FALSE
  /\ currentTime = StartNow
  /\ showDeleteZone = FALSE
  /\ currentlyDraggingTile = NoTile
  /\ isDragging = { }
  /\ now = StartNow
  /\ codes = Render(<< >>, FALSE, StartNow)
  /\ alert = NoAlert

\* The clock moves on (the environment).
AdvanceClock ==
  /\ now + TickMs <= MaxNow
  /\ now' = now + TickMs
  /\ UNCHANGED << accounts, showCamera, currentTime, showDeleteZone,
                  currentlyDraggingTile, isDragging, codes >>
  /\ alert' = NoAlert

\* A tick that stores the time and leaves the tiles as they were rendered.
TickWithoutRender ==
  /\ now >= currentTime + TickMs
  /\ currentTime' = now
  /\ UNCHANGED << accounts, showCamera, showDeleteZone, currentlyDraggingTile,
                  isDragging, now, codes >>
  /\ alert' = NoAlert

\* The setInterval callback of the effect (lines 225-231), due every TickMs.
Tick ==
  /\ now >= currentTime + TickMs
  /\ currentTime' = now
  /\ codes' = Render(accounts, showCamera, now)
  /\ UNCHANGED << accounts, showCamera, showDeleteZone, currentlyDraggingTile,
                  isDragging, now >>
  /\ alert' = NoAlert

\* Lines 233-241.  Opening the camera view unmounts the tiles and their state.
toggleCamera ==
  /\ showCamera' = ~showCamera
  /\ isDragging' = { }
  /\ codes' = Render(accounts, ~showCamera, now)
  /\ UNCHANGED << accounts, currentTime, showDeleteZone, currentlyDraggingTile, now >>
  /\ alert' = NoAlert

newAccount(r, t, x, y) ==
  [id |-> ToString(t), issuer |-> r.issuer, accountName |-> r.accountName,
   secret |-> r.secret, x |-> x, y |-> y, width |-> InitialWidth, height |-> InitialHeight]

\* Lines 243-300, the onReadCode handler of the camera view.
handleQRScan(qrData) ==
  /\ showCamera
  /\ LET r == Outcomes[qrData]
     IN  IF r.kind = "added"
         THEN /\ \E x \in RandX, y \in RandY :
                   accounts' = Append(accounts, newAccount(r, now, x, y))
              /\ showCamera' = FALSE
              /\ alert' = NoAlert
              /\ codes' = Render(accounts', FALSE, now)
         ELSE /\ alert' = r.alert
              /\ UNCHANGED << accounts, showCamera, codes >>
  /\ UNCHANGED << currentTime, showDeleteZone, currentlyDraggingTile, isDragging, now >>

Max(a, b) == IF a >= b THEN a ELSE b
Min(a, b) == IF a <= b THEN a ELSE b

\* A position update that forgets the id test.
updateEveryTilePosition(accs, accountId, x, y) ==
  [i \in 1..Len(accs) |-> [accs[i] EXCEPT !.x = x, !.y = y]]

\* Lines 302-310.
updateTilePosition(accs, accountId, x, y) ==
  [i \in 1..Len(accs) |->
     IF accs[i].id = accountId THEN [accs[i] EXCEPT !.x = x, !.y = y] ELSE accs[i]]

\* Lines 312-320.
updateTileSize(accs, accountId, width, height) ==
  [i \in 1..Len(accs) |->
     IF accs[i].id = accountId THEN [accs[i] EXCEPT !.width = width, !.height = height]
     ELSE accs[i]]

\* Line 323: the filter of deleteTile.
deleteTile(accs, accountId) == SelectSeq(accs, LAMBDA a : a.id # accountId)

\* The tiles exist only in the canvas view.
TileShown(i) == ~showCamera /\ i \in 1..Len(accounts)

\* Lines 151-158 and 328-331: a long press starts the drag of tile i.  The
\* App renders again only when one of its two state values changes.
handleLongPress(i) ==
  /\ TileShown(i)
  /\ isDragging' = isDragging \cup { accounts[i].id }
  /\ showDeleteZone' = TRUE
  /\ currentlyDraggingTile' = accounts[i].id
  /\ codes' = IF showDeleteZone /\ currentlyDraggingTile = accounts[i].id THEN codes
              ELSE Render(accounts, showCamera, now)
  /\ UNCHANGED << accounts, showCamera, currentTime, now >>
  /\ alert' = NoAlert

\* Lines 126-148 with 333-336 and 302-310: the release that ends a drag of
\* tile i calls onDragEnd and then onPositionChange with the clamped position.
onPanResponderRelease(i, gesture) ==
  /\ TileShown(i)
  /\ accounts[i].id \in isDragging
  /\ LET a == accounts[i]
         newX == Max(-((a.width * 4) \div 5),
                     Min(ScreenWidth - a.width \div 5, a.x + gesture[1]))
         newY == Max(-50, Min(ScreenHeight - a.height - 50, a.y + gesture[2]))
     IN  accounts' = updateTilePosition(accounts, a.id, newX, newY)
  /\ isDragging' = isDragging \ { accounts[i].id }
  /\ showDeleteZone' = FALSE
  /\ currentlyDraggingTile' = NoTile
  /\ codes' = Render(accounts', showCamera, now)
  /\ UNCHANGED << showCamera, currentTime, now >>
  /\ alert' = NoAlert

\* Lines 106-120 with 312-320: a two-finger move on tile i calls onSizeChange
\* with the clamped size.
onPanResponderMove(i, scale) ==
  /\ TileShown(i)
  /\ LET a == accounts[i]
         newWidth == Max(120, Min(350, (a.width * scale[1]) \div scale[2]))
         newHeight == Max(80, Min(250, (a.height * scale[1]) \div scale[2]))
     IN  accounts' = updateTileSize(accounts, a.id, newWidth, newHeight)
  /\ codes' = Render(accounts', showCamera, now)
  /\ UNCHANGED << showCamera, currentTime, showDeleteZone, currentlyDraggingTile,
                  isDragging, now >>
  /\ alert' = NoAlert

\* Lines 338-352 with 322-326: the press on the delete zone and the Delete
\* button of its dialog, which calls deleteTile with the id the press saw.
\* The tiles of the removed accounts unmount.
handleDeleteButtonPress ==
  /\ ~showCamera
  /\ showDeleteZone
  /\ currentlyDraggingTile # NoTile
  /\ \E i \in 1..Len(accounts) : accounts[i].id = currentlyDraggingTile
  /\ accounts' = deleteTile(accounts, currentlyDraggingTile)
  /\ showDeleteZone' = FALSE
  /\ currentlyDraggingTile' = NoTile
  /\ isDragging' = isDragging \ { currentlyDraggingTile }
  /\ codes' = Render(accounts', showCamera, now)
  /\ UNCHANGED << showCamera, currentTime, now >>
  /\ alert' = NoAlert

(***************************************************************************)
(* The application: every handler, with the scanned codes of AppInputs.    *)
(***************************************************************************)
Scan == \E qrData \in AppInputs : handleQRScan(qrData) /\ Len(accounts') <= MaxAccounts
LongPress == \E i \in 1..MaxAccounts : handleLongPress(i)
Release == \E i \in 1..MaxAccounts, g \in Gestures : onPanResponderRelease(i, g)
Pinch == \E i \in 1..MaxAccounts, sc \in PinchScales : onPanResponderMove(i, sc)

Next ==
  \/ AdvanceClock
  \/ Tick
  \/ toggleCamera
  \/ Scan
  \/ LongPress
  \/ Release
  \/ Pinch
  \/ handleDeleteButtonPress

Spec == Init /\ [][Next]_vars

\* The interval keeps firing while the App is mounted.
FairSpec == Spec /\ WF_vars(Tick)

(***************************************************************************)
(* The scanner: the camera view and handleQRScan on every scanned string   *)
(* of ScanInputs.                                                          *)
(***************************************************************************)
ScanAny == \E qrData \in ScanInputs : handleQRScan(qrData) /\ Len(accounts') <= MaxScanAccounts

NextScan ==
  \/ toggleCamera
  \/ ScanAny

ScanSpec == Init /\ [][NextScan]_vars

(***************************************************************************)
(* Properties of a scanned string, read off the string itself.             *)
(***************************************************************************)
\* The string begins with exactly otpauth://totp/, case and all.
HasTotpPrefix(u) == Len(u) >= 15 /\ \A i \in 1..15 : u[i] = Prefix[i]

\* The secret query parameter is missing or empty.
SecretMissing(u) ==
  LET v == searchParamsGet(u, K_secret) IN v.isNull \/ v.val = << >>

\* The label can be percent-decoded.
LabelDecodes(u) == decodeURIComponent(pathname(u)).ok

\* The digits query parameter is present and is none of 6, 7, 8.
DigitsOutOfRange(u) ==
  LET v == searchParamsGet(u, K_digits)
  IN  ~v.isNull /\ v.val \notin { << "6" >>, << "7" >>, << "8" >> }

\* The scanned strings of each kind, computed once.
NonTotpInputs == { u \in ScanInputs : ~HasTotpPrefix(u) }
MissingSecretInputs == { u \in ScanInputs : HasTotpPrefix(u) /\ SecretMissing(u) }
UndecodableInputs == { u \in ScanInputs : HasTotpPrefix(u) /\ ~LabelDecodes(u) }
BadDigitsInputs == { u \in ScanInputs : HasTotpPrefix(u) /\ DigitsOutOfRange(u) }

\* The step appended one account.
Added == Len(accounts') = Len(accounts) + 1

\* C1: every account of the list holds a secret that is valid Base32 and
\* decodes to at least one byte; a scan with any other secret adds nothing.
C1_SecretsAreValidBase32 ==
  \A i \in 1..Len(accounts) : IsValidBase32(accounts[i].secret)

\* C2: for every stored secret and every clock reading generateTOTP returns
\* the code of the TOTP algorithm, or signals CorruptCredential when the
\* secret cannot be decoded; it returns no code computed any other way.
CorruptCredential == << "CorruptCredential" >>

C2_NoSubstituteCode ==
  \A i \in 1..Len(accounts) :
    generateTOTP(accounts[i].secret, now) =
      IF IsValidBase32(accounts[i].secret) THEN jsotpNow(accounts[i].secret, now)
      ELSE CorruptCredential

\* C3: a scan of an otpauth://totp/ string whose secret parameter is missing
\* or empty raises an error and leaves the account list exactly as it was;
\* the error is the missing-secret one whenever the label can be decoded.
C3_MissingSecretRejected ==
  [][\A u \in MissingSecretInputs :
       handleQRScan(u) =>
         /\ accounts' = accounts
         /\ alert' = IF u \in UndecodableInputs THEN AlertInvalidFormat
                     ELSE AlertMissingSecret]_vars

C3_Witness ==
  /\ alert = AlertMissingSecret
  /\ Len(accounts) = 1
  /\ showCamera

\* C4, as stated: every scanned string that does not begin with
\* otpauth://totp/ raises an error and changes neither the account list nor
\* the camera flag.
C4_NonTotpRaisesError ==
  [][\A u \in NonTotpInputs :
       handleQRScan(u) =>
         /\ alert' # NoAlert
         /\ accounts' = accounts
         /\ showCamera' = showCamera]_vars

\* C4, amended: a non-empty scanned string that does not begin with
\* otpauth://totp/ raises the invalid-code error, the empty string is ignored
\* without an error, and either way the account list and the camera flag
\* stay as they were.
C4_NonTotpRejected ==
  [][\A u \in NonTotpInputs :
       handleQRScan(u) =>
         /\ alert' = IF u = << >> THEN NoAlert ELSE AlertInvalidQR
         /\ accounts' = accounts
         /\ showCamera' = showCamera]_vars

C4_Witness ==
  /\ alert = AlertInvalidQR
  /\ Len(accounts) = 1
  /\ showCamera

\* C5: a scan whose digits parameter is outside 6..8 adds no account.
C5_BadDigitsRejected ==
  [][\A u \in BadDigitsInputs : handleQRScan(u) => accounts' = accounts]_vars

(***************************************************************************)
(* The issuer and the account name expected of a scanned string.          *)
(***************************************************************************)
\* Position of the first ":" of a label, 0 when it has none.
FirstColon(l) ==
  IF \E i \in 1..Len(l) : l[i] = ":"
  THEN CHOOSE i \in 1..Len(l) : l[i] = ":" /\ \A j \in 1..(i - 1) : l[j] # ":"
  ELSE 0

BeforeFirstColon(l) == SubSeq(l, 1, FirstColon(l) - 1)
AfterFirstColon(l) == SubSeq(l, FirstColon(l) + 1, Len(l))

OrDefault(v, default) == IF v = << >> THEN default ELSE v

\* The percent-decoded label of a scanned otpauth://totp/ string.
LabelOf(u) == slice1(decodeURIComponent(pathname(u)).val)

ExpectedIssuer(u) ==
  LET p == searchParamsGet(u, K_issuer)
      l == LabelOf(u)
  IN  IF ~p.isNull /\ p.val # << >> THEN p.val
      ELSE OrDefault(IF FirstColon(l) > 0 THEN BeforeFirstColon(l) ELSE l, DefaultIssuer)

ExpectedAccountName(u) ==
  LET l == LabelOf(u)
  IN  OrDefault(IF FirstColon(l) > 0 THEN AfterFirstColon(l) ELSE l, DefaultAccountName)

\* The strings with a label that decodes, and their expected fields, computed once.
DecodableInputs == { u \in ScanInputs : HasTotpPrefix(u) /\ LabelDecodes(u) }
ColonInputs == { u \in DecodableInputs : FirstColon(LabelOf(u)) > 0 }
Expected ==
  [u \in DecodableInputs |->
     [issuer |-> ExpectedIssuer(u), accountName |-> ExpectedAccountName(u)]]

\* The account a scan step appended.
Appended == accounts'[Len(accounts')]

\* C6: the issuer stored for an accepted string is the non-empty issuer
\* parameter, else the label text before the colon, else the whole label,
\* else "Account"; the account name is the label text after the colon, or the
\* whole label, else "Unknown"; neither is the empty string.
C6_IssuerAndAccountNameResolved ==
  [][\A u \in DecodableInputs :
       (handleQRScan(u) /\ Added) =>
         /\ Appended.issuer = Expected[u].issuer
         /\ Appended.accountName = Expected[u].accountName
         /\ Appended.issuer # << >>
         /\ Appended.accountName # << >>]_vars

\* C7: a label with one or more ":" is split at the first one only: the
\* account name is all of the text after it, later ":" included.
C7_SplitOnFirstColonOnly ==
  [][\A u \in ColonInputs :
       (handleQRScan(u) /\ Added) =>
         /\ Appended.accountName = OrDefault(AfterFirstColon(LabelOf(u)), DefaultAccountName)
         /\ (searchParamsGet(u, K_issuer).isNull \/ searchParamsGet(u, K_issuer).val = << >>) =>
              Appended.issuer = OrDefault(BeforeFirstColon(LabelOf(u)), DefaultIssuer)]_vars

(***************************************************************************)
(* The generator and the refresh of the displayed codes.                   *)
(***************************************************************************)
\* Readings of the clock inside the 30-second step that holds t.
StepOffsets == { 0, 1, 999, 1000, 15000, 29000, 29999 }
StepTimes(t) == { PeriodMs * (t \div PeriodMs) + d : d \in StepOffsets }

\* For each stored secret and clock reading: every reading in the same step
\* gives the same code.  Computed once.
SameCodeInStep ==
  [s \in StoredSecrets |->
     [t \in ClockValues |-> \A t2 \in StepTimes(t) : generateTOTP(s, t2) = generateTOTP(s, t)]]

\* C8: for each stored secret, generateTOTP returns the same code at every
\* time of the 30-second step [30k, 30k + 30) that holds the clock reading,
\* on the library path and on the catch path.
C8_SameStepSameCode ==
  \A i \in 1..Len(accounts) : SameCodeInStep[accounts[i].secret][now]

C8_Witness ==
  /\ Len(accounts) = 2
  /\ ~jsotpThrows(accounts[1].secret)
  /\ jsotpThrows(accounts[2].secret)
  /\ now % PeriodMs # 0
  /\ codes = << generateTOTP(accounts[1].secret, now), generateTOTP(accounts[2].secret, now) >>

\* The code of every account at the clock reading t.
CodesAt(accs, t) == [i \in 1..Len(accs) |-> generateTOTP(accs[i].secret, t)]

\* The screen shows no code of an earlier step.
Fresh == showCamera \/ codes = CodesAt(accounts, now)

\* C9, as stated: every tick recomputes the code of every stored account
\* from the clock at that tick.
C9_EveryTickRecomputes ==
  [][Tick => codes' = CodesAt(accounts, now)]_vars

\* C9, amended: every tick in the canvas view recomputes the code of every
\* stored account from the clock at that tick; in the camera view a tick
\* computes and shows no code; and under fair ticking a screen that shows
\* the code of an earlier step comes to show the code of the current one.
C9_TicksRefresh ==
  /\ [][Tick => IF showCamera THEN codes' = << >>
                ELSE codes' = CodesAt(accounts, now)]_vars
  /\ (~Fresh ~> Fresh)

C9_Witness ==
  /\ now \div PeriodMs > StartNow \div PeriodMs
  /\ currentTime = now
  /\ ~showCamera
  /\ Len(accounts) = 2
  /\ codes = CodesAt(accounts, now)
  /\ codes # CodesAt(accounts, StartNow)

(***************************************************************************)
(* The account list under the tile operations.                             *)
(***************************************************************************)
\* The credential of an account: the fields a scan gives it.
Credential(a) ==
  [id |-> a.id, issuer |-> a.issuer, accountName |-> a.accountName, secret |-> a.secret]

Credentials(accs) == [i \in 1..Len(accs) |-> Credential(accs[i])]

Ids(accs) == { accs[i].id : i \in 1..Len(accs) }

\* accounts' is accounts with only the named fields of the accounts with
\* this id changed: same length, same order, every other account as it was.
OnlyChanged(accountId, fields) ==
  /\ Len(accounts') = Len(accounts)
  /\ \A j \in 1..Len(accounts) :
       IF accounts[j].id = accountId
       THEN \A f \in DOMAIN accounts[j] \ fields : accounts'[j][f] = accounts[j][f]
       ELSE accounts'[j] = accounts[j]

\* accounts' is accounts without the accounts with this id, the rest in order.
OnlyRemoved(accountId) ==
  /\ \A j \in 1..Len(accounts') : accounts'[j].id # accountId
  /\ \E keep \in SUBSET (1..Len(accounts)) :
       /\ \A j \in 1..Len(accounts) : j \in keep <=> accounts[j].id # accountId
       /\ Len(accounts') = Cardinality(keep)
       /\ \A j \in keep : accounts'[Cardinality({ k \in keep : k <= j })] = accounts[j]

\* C10: no step changes the id, issuer, account name or secret of an account
\* that stays in the list; a release changes only x and y, a pinch only width
\* and height, of the accounts with the tile's id and of no other; a delete
\* removes the accounts with the dragged id and no other.
C10_CredentialsNeverMutated ==
  [][/\ \/ Credentials(accounts') = Credentials(accounts)
        \/ Len(accounts') = Len(accounts) + 1
             /\ SubSeq(Credentials(accounts'), 1, Len(accounts)) = Credentials(accounts)
        \/ \E id \in Ids(accounts) : OnlyRemoved(id)
     /\ \A i \in 1..Len(accounts) :
          /\ (\E g \in Gestures : onPanResponderRelease(i, g))
               => OnlyChanged(accounts[i].id, { "x", "y" })
          /\ (\E sc \in PinchScales : onPanResponderMove(i, sc))
               => OnlyChanged(accounts[i].id, { "width", "height" })
     /\ handleDeleteButtonPress => OnlyRemoved(currentlyDraggingTile)]_vars

C10_Witness ==
  /\ Len(accounts) = 2
  /\ accounts[1].id # accounts[2].id
  /\ accounts[1].y # accounts[2].y
  /\ accounts[1].width # accounts[2].width
  /\ accounts[1].secret # accounts[2].secret

(***************************************************************************)
(* The identifiers of the accounts.                                        *)
(***************************************************************************)
\* C11: no two accounts of the list have the same id, two accounts scanned
\* at the same reading of the clock included.
C11_IdsAreUnique ==
  \A i, j \in 1..Len(accounts) : accounts[i].id = accounts[j].id => i = j

====
